---- MODULE Spec2Model ----
(***************************************************************************)
(* Hazard-zonation pipeline (mapa_amenaza_pijao.py) and dashboard          *)
(* classifier (config.py) of pijao-hazard-dashboard.                       *)
(*                                                                         *)
(* Units.  A factor of safety is an integer number of tenths (FS 1.2 is    *)
(* 12), with NaN and Inf as two reserved values.  Lengths are integers in  *)
(* an abstract length unit; the corridor is the segment (0,0)-(L,0).       *)
(***************************************************************************)
EXTENDS Integers, Sequences, FiniteSets, TLC

VARIABLES
    \* dashboard classifier (config.py) and raster reclassifier
    fs_array,        \* the input array of FS values
    hecho,           \* which classification paths have been applied
    res_escalar,     \* clasificar_fs applied to each value
    res_array,       \* clasificar_fs_array(fs_array)
    res_raster,      \* reclasificar_fs_a_haz(fs_array, UMBRALES_FS)
    res_load,        \* load_raster_with_validation of a raster holding fs_array
    res_overlay,     \* raster_to_folium_overlay of a raster holding fs_array
    \* pipeline (mapa_amenaza_pijao.py, main)
    pc,              \* position of main
    corredor,        \* [L, buffer_dist, resolution]: corridor and parameters
    puntos_file,     \* [columnas, filas]: the point table of PUNTOS_FILE
    puntos_gdf,      \* the point table main works on
    voronoi_gdf,     \* the polygons returned by crear_poligonos_voronoi
    raster,          \* what generar_raster_amenaza returned
    archivos,        \* the artifacts written so far
    salida,          \* how main ended: the message it printed last
    campos,          \* the field names printed after "Campos disponibles:"
    \* interpolar_idw called on its own
    puntos_idw,      \* the samples: puntos with valores, as [x, y, v]
    consulta,        \* the query location (xi, yi), two fractions
    res_idw,         \* what interpolar_idw returned for the query
    \* point preparation of the pipeline and of the dashboard
    tabla,           \* [columnas, filas]: a point table as read from file
    etapas,          \* which preparations and reports have run
    puntos_mapa,     \* tabla after main's four preparation calls
    puntos_panel,    \* what prepare_puntos(tabla) returned
    con_fs_min,      \* what ensure_fs_min(tabla) returned
    criticos,        \* the critical-point counts of the three reports
    nivel_predominante, \* the predominant level of the Estadisticas page
    estilos,         \* the class whose colour style_punto gave each point
    \* ensure_projected
    capas,           \* the corridor and point layers handed over
    proyectadas      \* what ensure_projected returned

varsClas == <<fs_array, hecho, res_escalar, res_array, res_raster, res_load,
              res_overlay>>
varsMain == <<pc, corredor, puntos_file, puntos_gdf, voronoi_gdf, raster, archivos,
              salida, campos>>
varsIdw == <<puntos_idw, consulta, res_idw>>
varsPanel == <<tabla, etapas, puntos_mapa, puntos_panel, con_fs_min, criticos,
               nivel_predominante, estilos>>
varsProy == <<capas, proyectadas>>
vars == <<fs_array, hecho, res_escalar, res_array, res_raster, res_load,
          res_overlay,
          pc, corredor, puntos_file, puntos_gdf, voronoi_gdf, raster,
          archivos, salida, campos, puntos_idw, consulta, res_idw,
          tabla, etapas, puntos_mapa, puntos_panel, con_fs_min, criticos,
          nivel_predominante, estilos, capas, proyectadas>>

(***************************************************************************)
(* Numbers                                                                 *)
(***************************************************************************)
NaN == -1000
Inf == 1000

isnan(x) == x = NaN

Min2(a, b) == IF a <= b THEN a ELSE b
Max2(a, b) == IF a >= b THEN a ELSE b

\* A real value is a fraction n/d with d >= 1; NaN and Inf are n = NaN and
\* n = Inf.  Fr(x) is the integer x as a real.
Fr(x) == [n |-> x, d |-> 1]

\* edge < v and edge <= v for a table edge (an integer or Inf) and a real v
\* that is not NaN.
MenorQue(edge, v) ==
    IF edge = Inf THEN FALSE
    ELSE IF v.n = Inf THEN TRUE
    ELSE edge * v.d < v.n

MenorIgual(edge, v) ==
    IF v.n = Inf THEN TRUE
    ELSE IF edge = Inf THEN FALSE
    ELSE edge * v.d <= v.n

\* np.digitize(v, bins, right) for increasing bins: the number of edges
\* that are <= v (right=False) or < v (right=True); NaN sorts after every
\* edge and gets len(bins).
digitize(v, bins, right) ==
    IF isnan(v.n) THEN Len(bins)
    ELSE Cardinality({i \in 1..Len(bins) :
                        IF right THEN MenorQue(bins[i], v)
                                 ELSE MenorIgual(bins[i], v)})

(***************************************************************************)
(* Threshold tables                                                        *)
(***************************************************************************)
UMBRALES_AMENAZA ==
    [bins |-> <<0, 10, 12, 15, 20, Inf>>, clases |-> <<5, 4, 3, 2, 1>>]

UMBRALES_FS ==
    [bins |-> <<0, 10, 12, 15, 20, Inf>>, clases |-> <<5, 4, 3, 2, 1>>]

(***************************************************************************)
(* config.py: scalar and array classifier                                  *)
(***************************************************************************)
\* clasificar_fs with the bins closed on the right (np.digitize right=True).
clasificar_fs_right(fs_value) ==
    IF isnan(fs_value) THEN 0
    ELSE LET bins   == UMBRALES_AMENAZA.bins
             clases == UMBRALES_AMENAZA.clases
             idx0   == digitize(Fr(fs_value), bins, TRUE) - 1
             idx    == Max2(0, Min2(idx0, Len(clases) - 1))
         IN  clases[idx + 1]

\* clasificar_fs without the lower clamp max(0, .): an index of -1 reads the
\* last class, as a negative index does in the source language.
clasificar_fs_sin_max(fs_value) ==
    IF isnan(fs_value) THEN 0
    ELSE LET bins   == UMBRALES_AMENAZA.bins
             clases == UMBRALES_AMENAZA.clases
             idx0   == digitize(Fr(fs_value), bins, FALSE) - 1
             idx    == Min2(idx0, Len(clases) - 1)
         IN  IF idx < 0 THEN clases[Len(clases) + idx + 1] ELSE clases[idx + 1]

\* idx is 0-based in the code; clases[idx] is clases[idx + 1] here.
clasificar_fs(fs_value) ==
    IF isnan(fs_value) THEN 0
    ELSE LET bins   == UMBRALES_AMENAZA.bins
             clases == UMBRALES_AMENAZA.clases
             idx0   == digitize(Fr(fs_value), bins, FALSE) - 1
             idx    == Max2(0, Min2(idx0, Len(clases) - 1))
         IN  clases[idx + 1]

\* clasificar_fs_array without ~np.isnan(arr) in valid_mask: np.digitize
\* puts NaN past the last edge.
clasificar_fs_array_sin_isnan(arr) ==
    LET bins   == UMBRALES_AMENAZA.bins
        clases == UMBRALES_AMENAZA.clases
        clip(i)  == Max2(0, Min2(i, Len(clases) - 1))
    IN  [i \in DOMAIN arr |->
            IF arr[i] # 0
            THEN clases[clip((IF isnan(arr[i]) THEN Len(bins)
                              ELSE digitize(Fr(arr[i]), bins, FALSE)) - 1) + 1]
            ELSE 0]

clasificar_fs_array(arr) ==
    LET bins   == UMBRALES_AMENAZA.bins
        clases == UMBRALES_AMENAZA.clases
        valid(x) == x # 0 /\ ~isnan(x)
        clip(i)  == Max2(0, Min2(i, Len(clases) - 1))
    IN  [i \in DOMAIN arr |->
            IF valid(arr[i])
            THEN clases[clip(digitize(Fr(arr[i]), bins, FALSE) - 1) + 1]
            ELSE 0]

(***************************************************************************)
(* Raster validation of the dashboard (data_loader.py, geotiff_overlay.py).*)
(* A cell of a raster is a number of tenths like an FS value, so the class *)
(* c stored in a cell is the cell value 10 * c; rasters are flat arrays.   *)
(***************************************************************************)
ComoCelda(c) == 10 * c

\* {0, 1, 2, 3, 4, 5} as cell values.  A float cell of integer value is
\* equal to a member of the set, so both membership tests of the code
\* accept the same cells.
VALORES_DISCRETOS_VALIDOS == {ComoCelda(c) : c \in 0..5}

\* data[valid_mask], as the set of the positions of the valid cells.
valid_data(data) == {i \in DOMAIN data : data[i] # 0 /\ ~isnan(data[i])}

\* (is_discrete, ...) of detect_raster_type.
detect_raster_type(data) ==
    IF valid_data(data) = {} THEN TRUE
    ELSE \A i \in valid_data(data) : data[i] \in VALORES_DISCRETOS_VALIDOS

\* clasificar_fs_array(data.astype(np.float32)), the classes as cell values.
Reclasificado(data) ==
    [i \in DOMAIN data |-> ComoCelda(clasificar_fs_array(data)[i])]

\* With no valid cell unique_vals is the list [], and building the
\* metadata calls unique_vals.tolist(): AttributeError.
load_raster_with_validation(data) ==
    LET is_discrete ==
            IF valid_data(data) = {} THEN TRUE
            ELSE \A i \in valid_data(data) : data[i] \in VALORES_DISCRETOS_VALIDOS
    IN  IF valid_data(data) = {} THEN [estado |-> "AttributeError"]
        ELSE [estado |-> "ok",
              data |-> IF is_discrete THEN data ELSE Reclasificado(data),
              is_discrete |-> is_discrete,
              reclassified |-> ~is_discrete]

\* raster_to_png_base64 colours data, reclassified first if not is_discrete:
\* the cells that get coloured.
raster_to_png_base64(data, is_discrete) ==
    IF is_discrete THEN data ELSE Reclasificado(data)

raster_to_folium_overlay(data, auto_detect) ==
    LET is_discrete == detect_raster_type(data)
    IN  [estado |-> "ok",
         auto_detect |-> auto_detect,
         is_discrete |-> is_discrete,
         reclassified |-> auto_detect /\ ~is_discrete,
         image |-> raster_to_png_base64(
                      data, IF auto_detect THEN is_discrete ELSE TRUE)]

(***************************************************************************)
(* mapa_amenaza_pijao.py: raster reclassifier                              *)
(***************************************************************************)
\* fs_continuo is an array of reals.  raster_clasificado starts at 0 and
\* gets clases[i-1] where indices = i, for i = 1..len(clases); any other
\* index keeps 0.
reclasificar_fs_a_haz(fs_continuo, umbrales) ==
    [c \in DOMAIN fs_continuo |->
        LET indice == digitize(fs_continuo[c], umbrales.bins, TRUE)
        IN  IF indice \in 1..Len(umbrales.clases)
            THEN umbrales.clases[indice] ELSE 0]

(***************************************************************************)
(* mapa_amenaza_pijao.py: point preparation                                *)
(*                                                                         *)
(* A table is [columnas, filas]; a row is a record with one field for each *)
(* column the bounded inputs can hold, and a field whose column is not in  *)
(* columnas is not read.                                                   *)
(***************************************************************************)
\* A cell of text that is not a number.
Texto == 0 - 2000

\* pd.to_numeric(errors='coerce') on a cell.
to_numeric(v) == IF v = Texto THEN NaN ELSE v

\* The first name of the sequence cand that is in cols, or "" if none is.
Primero(cand, cols) ==
    LET en == {k \in DOMAIN cand : cand[k] \in cols}
    IN  IF en = {} THEN ""
        ELSE cand[CHOOSE k \in en : \A m \in en : k <= m]

\* The least number of a non-empty set.
Minimo(S) == CHOOSE a \in S : \A b \in S : a <= b

\* min(skipna=True) of the cells of a row: NaN when none is a number.
MinSinNaN(celdas) ==
    LET nums == {v \in celdas : ~isnan(v)}
    IN  IF nums = {} THEN NaN ELSE Minimo(nums)

\* c.upper().startswith('FS_') on the column names of the bounded inputs.
UpperEmpiezaFS(c) == c \in {"FS_min", "FS_1", "FS_2", "fs_3"}

\* c.startswith('FS_') on the column names of the bounded inputs.
EmpiezaFS(c) == c \in {"FS_min", "FS_1", "FS_2"}

\* gdf[c] = valores: the column c set row by row.
ConColumna(gdf, c, valores) ==
    [columnas |-> gdf.columnas \cup {c},
     filas |-> [i \in DOMAIN gdf.filas |->
                  [gdf.filas[i] EXCEPT ![c] = valores[i]]]]

\* isna().all() of a column: TRUE on an empty table.
TodoNaN(gdf, campo) == \A i \in DOMAIN gdf.filas : isnan(gdf.filas[i][campo])

\* ID is the first candidate column present, else np.arange(len(gdf)).
ensure_id_column(gdf) ==
    LET c == Primero(<<"ID", "Sondeo", "SONDEO", "fid", "FID">>, gdf.columnas)
    IN  IF c # ""
        THEN ConColumna(gdf, "ID", [i \in DOMAIN gdf.filas |-> gdf.filas[i][c]])
        ELSE ConColumna(gdf, "ID", [i \in DOMAIN gdf.filas |-> i - 1])

\* ensure_fs_min taking the row-wise minimum with skipna=False: one missing
\* cell makes the minimum NaN.
ensure_fs_min_con_nan(gdf) ==
    IF "FS_min" \in gdf.columnas THEN gdf
    ELSE LET fs_cols == {c \in gdf.columnas : UpperEmpiezaFS(c)}
             num == [i \in DOMAIN gdf.filas |->
                        [c \in DOMAIN gdf.filas[i] |->
                            IF c \in fs_cols THEN to_numeric(gdf.filas[i][c])
                            ELSE gdf.filas[i][c]]]
             celdas(i) == {num[i][c] : c \in fs_cols}
         IN  IF fs_cols = {} THEN gdf
             ELSE ConColumna([columnas |-> gdf.columnas, filas |-> num],
                             "FS_min",
                             [i \in DOMAIN gdf.filas |->
                                 IF \E v \in celdas(i) : isnan(v) THEN NaN
                                 ELSE Minimo(celdas(i))])

\* The FS_* columns are made numeric (pd.to_numeric maps a non-numeric cell
\* to NaN), then FS_min is their min(axis=1, skipna=True).
ensure_fs_min(gdf) ==
    IF "FS_min" \in gdf.columnas THEN gdf
    ELSE LET fs_cols == {c \in gdf.columnas : UpperEmpiezaFS(c)}
             num == [i \in DOMAIN gdf.filas |->
                        [c \in DOMAIN gdf.filas[i] |->
                            IF c \in fs_cols THEN to_numeric(gdf.filas[i][c])
                            ELSE gdf.filas[i][c]]]
         IN  IF fs_cols = {} THEN gdf
             ELSE ConColumna([columnas |-> gdf.columnas, filas |-> num],
                             "FS_min",
                             [i \in DOMAIN gdf.filas |->
                                 MinSinNaN({num[i][c] : c \in fs_cols})])

\* astype(str).str.upper().str.strip() on the labels of the bounded inputs.
UpperStrip(label) ==
    CASE label = "ALTA"      -> "ALTA"
      [] label = " baja "    -> "BAJA"
      [] label = "Muy Alta"  -> "MUY ALTA"
      [] label = "n/d"       -> "N/D"
      [] OTHER               -> label

mapa(label) ==
    CASE label = "MUY BAJA" -> 1
      [] label = "BAJA"     -> 2
      [] label = "MEDIA"    -> 3
      [] label = "ALTA"     -> 4
      [] label = "MUY ALTA" -> 5
      [] OTHER              -> NaN

fs_to_h(fs) ==
    IF isnan(fs) THEN NaN
    ELSE IF fs >= 15 THEN 1
    ELSE IF fs >= 13 THEN 2
    ELSE IF fs >= 11 THEN 3
    ELSE IF fs >= 10 THEN 4
    ELSE 5

ensure_haz_num(gdf) ==
    IF "haz_num" \in gdf.columnas THEN gdf
    ELSE
      LET g1 == IF "CLASIFICACION" \in gdf.columnas
                THEN ConColumna(gdf, "haz_num",
                       [i \in DOMAIN gdf.filas |->
                          mapa(UpperStrip(gdf.filas[i].CLASIFICACION))])
                ELSE gdf
      IN  IF "haz_num" \notin g1.columnas \/ TodoNaN(g1, "haz_num")
          THEN LET g2 == ensure_fs_min(g1)
               IN  IF "FS_min" \in g2.columnas
                   THEN ConColumna(g2, "haz_num",
                          [i \in DOMAIN g2.filas |-> fs_to_h(g2.filas[i].FS_min)])
                   ELSE g2
          ELSE g1

\* Every geometry replaced by its centroid, which is a Point.
Centroides(gdf) ==
    [columnas |-> gdf.columnas,
     filas |-> [i \in DOMAIN gdf.filas |-> [gdf.filas[i] EXCEPT !.geom = "Point"]]]

\* The type of the first geometry decides for the whole table.
verificar_y_convertir_geometrias(gdf) ==
    LET tipo_geom == IF Len(gdf.filas) > 0 THEN gdf.filas[1].geom ELSE "Unknown"
    IN  IF tipo_geom # "Point" THEN Centroides(gdf) ELSE gdf

\* main's preparation of the point table, lines 586-589.
preparar_mapa(gdf) ==
    ensure_haz_num(ensure_fs_min(ensure_id_column(
        verificar_y_convertir_geometrias(gdf))))

\* prepare_puntos of the dashboard.  DataFrame.min(axis=1) over columns of
\* which one holds text either leaves the text columns out (numeric_only)
\* or raises TypeError, depending on the pandas installed.
prepare_puntos(gdf, numeric_only) ==
    LET g0 == IF Len(gdf.filas) > 0 /\ gdf.filas[1].geom # "Point"
              THEN Centroides(gdf) ELSE gdf
        id_col == Primero(<<"ID", "id", "SONDEO", "Sondeo", "fid", "FID",
                            "OBJECTID">>, g0.columnas)
        g1 == IF id_col # "" /\ id_col # "ID"
              THEN ConColumna(g0, "ID",
                              [i \in DOMAIN g0.filas |-> g0.filas[i][id_col]])
              ELSE IF "ID" \notin g0.columnas
              THEN ConColumna(g0, "ID", [i \in DOMAIN g0.filas |-> i])
              ELSE g0
        fs_cols == {c \in g1.columnas : EmpiezaFS(c) /\ c # "FS_min"}
        de_texto == {c \in fs_cols :
                        \E i \in DOMAIN g1.filas : g1.filas[i][c] = Texto}
        g2 == IF "FS_min" \in g1.columnas THEN g1
              ELSE IF fs_cols # {}
              THEN ConColumna(g1, "FS_min",
                     [i \in DOMAIN g1.filas |->
                        MinSinNaN({g1.filas[i][c] : c \in fs_cols \ de_texto})])
              ELSE ConColumna(g1, "FS_min", [i \in DOMAIN g1.filas |-> NaN])
        g3 == IF "haz_num" \in g2.columnas THEN g2
              ELSE IF ~TodoNaN(g2, "FS_min")
              THEN ConColumna(g2, "haz_num",
                     [i \in DOMAIN g2.filas |-> clasificar_fs(g2.filas[i].FS_min)])
              ELSE ConColumna(g2, "haz_num", [i \in DOMAIN g2.filas |-> NaN])
    IN  IF "FS_min" \notin g1.columnas /\ de_texto # {} /\ ~numeric_only
        THEN [estado |-> "TypeError", columnas |-> {}, filas |-> <<>>]
        ELSE [estado |-> "ok", columnas |-> g3.columnas, filas |-> g3.filas]

\* The filter with FS_min <= 1.0 in place of FS_min < 1.0.
puntos_criticos_hasta_uno(gdf) ==
    {i \in DOMAIN gdf.filas :
        ~isnan(gdf.filas[i].FS_min) /\ gdf.filas[i].FS_min <= 10}

\* puntos[puntos['FS_min'] < 1.0]: a comparison with NaN is False.
puntos_criticos(gdf) ==
    {i \in DOMAIN gdf.filas :
        ~isnan(gdf.filas[i].FS_min) /\ gdf.filas[i].FS_min < 10}

\* The count behind the ALERTA line of calcular_estadisticas_puntos; no
\* count is made of a table without FS_min.
calcular_estadisticas_puntos(gdf) ==
    IF "FS_min" \in gdf.columnas THEN Cardinality(puntos_criticos(gdf)) ELSE 0

\* The number of points section 2 of generar_informe_tecnico is about.
generar_informe_tecnico(gdf) ==
    IF "FS_min" \in gdf.columnas THEN Cardinality(puntos_criticos(gdf)) ELSE 0

\* The "Criticos (FS<1.0)" metric of the Estadisticas page.
criticos_pagina(puntos) ==
    LET por_clase == IF "haz_num" \in puntos.columnas
                     THEN Cardinality({i \in DOMAIN puntos.filas :
                             /\ ~isnan(puntos.filas[i].haz_num)
                             /\ puntos.filas[i].haz_num >= 5})
                     ELSE 0
    IN  IF "FS_min" \in puntos.columnas
        THEN Cardinality(puntos_criticos(puntos)) ELSE por_clase

\* Series.mode(): the most frequent non-NaN values, the least of them first.
mode(puntos, campo) ==
    LET vals == {puntos.filas[i][campo] : i \in DOMAIN puntos.filas}
        nums == {v \in vals : ~isnan(v)}
        veces(v) == Cardinality({i \in DOMAIN puntos.filas :
                                    puntos.filas[i][campo] = v})
    IN  {v \in nums : \A w \in nums : veces(w) <= veces(v)}

\* nivel_predominante of the Estadisticas page (haz_num is a column there).
nivel_predominante_pagina(puntos) ==
    IF mode(puntos, "haz_num") # {} THEN Minimo(mode(puntos, "haz_num")) ELSE 3

\* The class whose colour of COLORES_SGC style_punto gives the marker of a
\* row; 0 is the grey of a class that is not a key of COLORES_SGC.
style_punto(row, columnas) ==
    LET dado == IF "haz_num" \in columnas THEN row.haz_num ELSE 1
        haz_num == IF isnan(dado) THEN 1 ELSE dado
    IN  IF haz_num \in 1..5 THEN haz_num ELSE 0

(***************************************************************************)
(* ensure_projected.  A layer is [crs, n, lon, lat]: its CRS, its number   *)
(* of geometries and the centroid of their union in the units of its CRS   *)
(* (whole degrees for a geographic CRS).  A CRS is its EPSG code.          *)
(***************************************************************************)
SinCRS == 0            \* gdf.crs is None
WGS84 == 4326          \* geographic
MagnaBogota == 3116    \* projected, metres, not UTM

is_geographic(crs) == crs = WGS84

\* The codes of the UTM zones 1..60, north and south.
EsUTM(epsg) == epsg \in 32601..32660 \/ epsg \in 32701..32760

\* The codes pyproj knows among those _utm_epsg can give: the UTM zones and
\* the two polar stereographic systems 32661 and 32761.
EPSGConocido(epsg) == EsUTM(epsg) \/ epsg \in {32661, 32761}

\* int(n / d) for d > 0: the quotient cut towards zero.
Trunc(n, d) == IF n >= 0 THEN n \div d ELSE 0 - ((0 - n) \div d)

utm_epsg(gdf) ==
    LET zone == Trunc(gdf.lon + 180, 6) + 1
    IN  IF gdf.lat >= 0 THEN 32600 + zone ELSE 32700 + zone

\* gdf.to_crs(crs): the CRS of the result, or the exception raised.
to_crs(gdf, crs) ==
    IF gdf.crs = SinCRS THEN [estado |-> "ValueError", crs |-> gdf.crs]
    ELSE IF crs # MagnaBogota /\ crs # WGS84 /\ ~EPSGConocido(crs)
    THEN [estado |-> "CRSError", crs |-> gdf.crs]
    ELSE [estado |-> "ok", crs |-> crs]

\* What ensure_projected returns: the CRS of the two layers and the code
\* _utm_epsg selected (0 when it was not called), or the exception raised.
\* The centroid of an empty union has no coordinates: reading them raises.
ensure_projected(corredor_gdf, puntos) ==
    LET falla(e) == [estado |-> e, corredor_crs |-> corredor_gdf.crs,
                     puntos_crs |-> puntos.crs, epsg |-> 0]
        reproyecta == corredor_gdf.crs = SinCRS \/ is_geographic(corredor_gdf.crs)
        fuente == IF corredor_gdf.n > 0 THEN corredor_gdf ELSE puntos
        epsg == IF reproyecta THEN utm_epsg(fuente) ELSE 0
        c1 == IF reproyecta THEN to_crs(corredor_gdf, epsg)
              ELSE [estado |-> "ok", crs |-> corredor_gdf.crs]
        p1 == IF puntos.crs # c1.crs THEN to_crs(puntos, c1.crs)
              ELSE [estado |-> "ok", crs |-> puntos.crs]
    IN  IF reproyecta /\ fuente.n = 0 THEN falla("centroide vacio")
        ELSE IF c1.estado # "ok" THEN falla(c1.estado)
        ELSE IF p1.estado # "ok" THEN falla(p1.estado)
        ELSE [estado |-> "ok", corredor_crs |-> c1.crs, puntos_crs |-> p1.crs,
              epsg |-> epsg]

(***************************************************************************)
(* Geometry.  The corridor is the segment (0,0)-(L,0); its buffer by       *)
(* buffer_dist is the set of locations within buffer_dist of the segment.  *)
(***************************************************************************)
Cuad(a) == a * a

Dist2(p, q) == Cuad(p.x - q.x) + Cuad(p.y - q.y)

\* bounds of corredor.unary_union.buffer(buffer_dist)
Bounds(c) == [xmin |-> 0 - c.buffer_dist, ymin |-> 0 - c.buffer_dist,
              xmax |-> c.L + c.buffer_dist, ymax |-> c.buffer_dist]

\* Is the location (xn/xd, yn/yd) in the buffered corridor?
EnArea(xn, xd, yn, yd, c) ==
    LET fuera == IF xn < 0 THEN 0 - xn
                 ELSE IF xn > c.L * xd THEN xn - c.L * xd
                 ELSE 0
    IN  Cuad(fuera) * Cuad(yd) + Cuad(yn) * Cuad(xd)
            <= Cuad(c.buffer_dist) * Cuad(xd) * Cuad(yd)

\* The integer locations of the buffered corridor: the locations at which
\* polygons are sampled.
Lugares(c) ==
    {q \in [x : (0 - c.buffer_dist)..(c.L + c.buffer_dist),
            y : (0 - c.buffer_dist)..c.buffer_dist] : EnArea(q.x, 1, q.y, 1, c)}

\* Is the location strictly inside the buffered corridor?
EstrictamenteEnArea(q, c) ==
    LET fuera == IF q.x < 0 THEN 0 - q.x
                 ELSE IF q.x > c.L THEN q.x - c.L ELSE 0
    IN  Cuad(fuera) + Cuad(q.y) < Cuad(c.buffer_dist)

(***************************************************************************)
(* mapa_amenaza_pijao.py: Voronoi zonation                                 *)
(***************************************************************************)
\* The four phantom points: the corners of the bounds moved out by pad.
bbox_pts(c) ==
    LET b   == Bounds(c)
        pad == c.buffer_dist * 3
    IN  {[x |-> b.xmin - pad, y |-> b.ymin - pad],
         [x |-> b.xmin - pad, y |-> b.ymax + pad],
         [x |-> b.xmax + pad, y |-> b.ymin - pad],
         [x |-> b.xmax + pad, y |-> b.ymax + pad]}

Coord(f) == [x |-> f.x, y |-> f.y]

\* vor.regions[vor.point_region[i]] holds -1 (an open region) exactly when
\* the point is on the convex hull of all_pts; with the other real points
\* inside the box of the phantom points, that is when it is not strictly
\* inside that box.
RegionAbierta(p, c) ==
    LET b   == Bounds(c)
        pad == c.buffer_dist * 3
    IN  ~(/\ b.xmin - pad < p.x /\ p.x < b.xmax + pad
          /\ b.ymin - pad < p.y /\ p.y < b.ymax + pad)

\* The cell of row i bounded by the phantom points only, the other real
\* points left out of all_pts.
CeldaSoloFantasmas(filas, i, c) ==
    LET p == Coord(filas[i])
    IN  {q \in Lugares(c) : \A o \in bbox_pts(c) : Dist2(q, p) <= Dist2(q, o)}

\* Polygon(region).intersection(corredor_buffer) of row i, as the set of the
\* integer locations of the buffer it contains: those at least as near to
\* point i as to every other point of all_pts (real and phantom).
CeldaRecortada(filas, i, c) ==
    LET p     == Coord(filas[i])
        otros == {Coord(filas[k]) : k \in DOMAIN filas \ {i}} \cup bbox_pts(c)
    IN  {q \in Lugares(c) : \A o \in otros : Dist2(q, p) <= Dist2(q, o)}

\* The rows whose polygon reaches the record construction of the loop.
FilasConPoligono(filas, c) ==
    {i \in DOMAIN filas :
        /\ ~RegionAbierta(Coord(filas[i]), c)
        /\ CeldaRecortada(filas, i, c) # {}}

RECURSIVE EnOrden(_)
\* The elements of a set of integers as an increasing sequence.
EnOrden(S) ==
    IF S = {} THEN <<>>
    ELSE LET m == CHOOSE a \in S : \A b \in S : a <= b
         IN  <<m>> \o EnOrden(S \ {m})

\* crear_poligonos_voronoi reading the attributes of every record from the
\* first row, iloc[0], instead of iloc[point_idx].
crear_poligonos_voronoi_fila0(gdf, c) ==
    LET filas == gdf.filas
        kept  == FilasConPoligono(filas, c)
        orden == EnOrden(kept)
    IN  IF \E i \in kept : isnan(filas[i].haz_num)
        THEN [error |-> TRUE, polys |-> <<>>]
        ELSE [error |-> FALSE,
              polys |-> [k \in DOMAIN orden |->
                 [geometry |-> CeldaRecortada(filas, orden[k], c),
                  haz_num  |-> filas[1].haz_num,
                  FS_min   |-> IF "FS_min" \in gdf.columnas
                               THEN filas[1].FS_min ELSE NaN,
                  punto_id |-> filas[1].ID]]]

\* Returns [error, polys]: int(haz_num) raises on an undefined haz_num, and
\* the exception leaves the function; otherwise one record per kept row, in
\* row order.
crear_poligonos_voronoi(gdf, c) ==
    LET filas == gdf.filas
        kept  == FilasConPoligono(filas, c)
        orden == EnOrden(kept)
    IN  IF \E i \in kept : isnan(filas[i].haz_num)
        THEN [error |-> TRUE, polys |-> <<>>]
        ELSE [error |-> FALSE,
              polys |-> [k \in DOMAIN orden |->
                 [geometry |-> CeldaRecortada(filas, orden[k], c),
                  haz_num  |-> filas[orden[k]].haz_num,
                  FS_min   |-> IF "FS_min" \in gdf.columnas
                               THEN filas[orden[k]].FS_min ELSE NaN,
                  punto_id |-> filas[orden[k]].ID]]]

(***************************************************************************)
(* mapa_amenaza_pijao.py: IDW interpolation                                *)
(***************************************************************************)
RECURSIVE Suma(_, _)
\* The sum of f[i] over the indices of S.
Suma(f, S) ==
    IF S = {} THEN 0
    ELSE LET i == CHOOSE a \in S : TRUE IN f[i] + Suma(f, S \ {i})

RECURSIVE Producto(_, _)
\* The product of f[i] over the indices of S.
Producto(f, S) ==
    IF S = {} THEN 1
    ELSE LET i == CHOOSE a \in S : TRUE IN f[i] * Producto(f, S \ {i})

Signo(a) == IF a > 0 THEN 1 ELSE IF a < 0 THEN 0 - 1 ELSE 0

\* The denominator under which a value left by the 1e-10 distance floor is
\* written: smaller than every gap between two table edges.
Diminuto == 1000000

\* tree.query(..., k=min(10, len(puntos))) returns 1-D arrays when k = 1 (the
\* last axis is squeezed), and weights.sum(axis=1) then raises.
IdwFalla(muestras) == Min2(10, Len(muestras)) = 1

\* interpolar_idw without the floor np.maximum(distances, 1e-10): a sample
\* at distance 0 has the weight inf, and inf / inf is NaN.
interpolar_idw_sin_piso(muestras, qx, qy) ==
    LET I == DOMAIN muestras
        D == [i \in I |->
                Cuad(qx.n - muestras[i].x * qx.d) * Cuad(qy.d)
              + Cuad(qy.n - muestras[i].y * qy.d) * Cuad(qx.d)]
        P == [i \in I |-> Producto(D, I \ {i})]
        num == Suma([i \in I |-> muestras[i].v * P[i]], I)
        den == Suma(P, I)
    IN  IF \E i \in I : D[i] = 0 THEN Fr(NaN) ELSE [n |-> num, d |-> den]

\* The interpolated value at the location (qx, qy), two fractions, from the
\* samples [x, y, v] (at most 10, so that every sample is a neighbour):
\* sum(w_i * v_i) / sum(w_i) with w_i = 1 / max(d_i, 1e-10)^2.  D[i] is
\* d_i^2 times the common factor (qx.d * qy.d)^2.  The samples at distance
\* 0 have the weight 1e20 each: the float result is the mean of their
\* values (the value itself when there is one such sample), or, when that
\* mean is 0, a value of the sign of the others' contribution and
\* negligible size.
interpolar_idw(muestras, qx, qy) ==
    LET I == DOMAIN muestras
        D == [i \in I |->
                Cuad(qx.n - muestras[i].x * qx.d) * Cuad(qy.d)
              + Cuad(qy.n - muestras[i].y * qy.d) * Cuad(qx.d)]
        cero == {i \in I : D[i] = 0}
        P == [i \in I |-> Producto(D, (I \ cero) \ {i})]
        num == Suma([i \in I |-> muestras[i].v * P[i]], I \ cero)
        den == Suma(P, I \ cero)
        sumc == Suma([i \in I |-> muestras[i].v], cero)
    IN  IF cero = {} THEN [n |-> num, d |-> den]
        ELSE IF sumc # 0 THEN [n |-> sumc, d |-> Cardinality(cero)]
        ELSE [n |-> Signo(num), d |-> Diminuto]

(***************************************************************************)
(* mapa_amenaza_pijao.py: raster generation                                *)
(***************************************************************************)
\* int(np.ceil(a / b)) for a >= 0 and b > 0
Ceil(a, b) == (a + b - 1) \div b

Width(c)  == Max2(1, Ceil(Bounds(c).xmax - Bounds(c).xmin, c.resolution))
Height(c) == Max2(1, Ceil(Bounds(c).ymax - Bounds(c).ymin, c.resolution))

\* The cells (row i, column j), 0-based.
Celdas(c) == (0..(Height(c) - 1)) \X (0..(Width(c) - 1))

\* np.linspace(a, b, n)[j]
linspace(a, b, n, j) ==
    IF n = 1 THEN Fr(a)
    ELSE [n |-> a * (n - 1) + j * (b - a), d |-> n - 1]

\* xi[i, j] and yi[i, j] of np.meshgrid(x, y): the location at which the
\* value of cell (i, j) is interpolated.
ConsultaX(c, i, j) == linspace(Bounds(c).xmin, Bounds(c).xmax, Width(c), j)
ConsultaY(c, i, j) == linspace(Bounds(c).ymin, Bounds(c).ymax, Height(c), i)

\* rasterio.transform.from_bounds(west, south, east, north, width, height):
\* origin at (west, north), steps (east - west) / width and
\* (south - north) / height.
from_bounds(west, south, east, north, w, h) ==
    [c |-> west, f |-> north,
     a |-> [n |-> east - west, d |-> w],
     e |-> [n |-> south - north, d |-> h]]

\* The centre of cell (i, j) under a transform: transform * (j + 1/2, i + 1/2)
CentroX(t, i, j) == [n |-> 2 * t.a.d * t.c + (2 * j + 1) * t.a.n, d |-> 2 * t.a.d]
CentroY(t, i, j) == [n |-> 2 * t.e.d * t.f + (2 * i + 1) * t.e.n, d |-> 2 * t.e.d]

\* geometry_mask(..., invert=True): TRUE at the cells whose centre is in
\* the area.
geometry_mask(c, t) ==
    [cel \in Celdas(c) |->
        LET cx == CentroX(t, cel[1], cel[2])
            cy == CentroY(t, cel[1], cel[2])
        IN  EnArea(cx.n, cx.d, cy.n, cy.d, c)]

NoRaster == [estado |-> "sin generar"]

\* Returns [estado |-> "none"] for (None, None, None), [estado |->
\* "excepcion"] when interpolar_idw raises, and otherwise the classified
\* grid with its transform and bounds (and the masked continuous grid).
generar_raster_amenaza(gdf, c) ==
    IF "FS_min" \notin gdf.columnas THEN [estado |-> "none"]
    ELSE
      LET b == Bounds(c)
          validas == {i \in DOMAIN gdf.filas : ~isnan(gdf.filas[i].FS_min)}
          orden == EnOrden(validas)
          muestras == [k \in DOMAIN orden |->
                         [x |-> gdf.filas[orden[k]].x,
                          y |-> gdf.filas[orden[k]].y,
                          v |-> gdf.filas[orden[k]].FS_min]]
      IN  IF validas = {} THEN [estado |-> "none"]
          ELSE IF IdwFalla(muestras) THEN [estado |-> "excepcion"]
          ELSE
            LET transform == from_bounds(b.xmin, b.ymin, b.xmax, b.ymax,
                                         Width(c), Height(c))
                mask == geometry_mask(c, transform)
                zi_continuo == [cel \in Celdas(c) |->
                    IF mask[cel]
                    THEN interpolar_idw(muestras,
                                        ConsultaX(c, cel[1], cel[2]),
                                        ConsultaY(c, cel[1], cel[2]))
                    ELSE Fr(NaN)]
                mask_validos_raster == {cel \in Celdas(c) : ~isnan(zi_continuo[cel].n)}
                reclas == reclasificar_fs_a_haz(
                            [cel \in mask_validos_raster |-> zi_continuo[cel]],
                            UMBRALES_FS)
            IN  [estado |-> "ok",
                 zi_clasificado |-> [cel \in Celdas(c) |->
                     IF cel \in mask_validos_raster THEN reclas[cel] ELSE 0],
                 zi_continuo |-> zi_continuo,
                 transform |-> transform,
                 bounds |-> b]

(***************************************************************************)
(* mapa_amenaza_pijao.py: main                                             *)
(***************************************************************************)
VORONOI_GPKG == "voronoi_amenaza_pijao.gpkg"
RASTER_TIF   == "raster_amenaza_pijao.tif"
MAPA_PNG     == "mapa_amenaza_pijao.png"
INFORME_TXT  == "informe_tecnico_amenaza_pijao.txt"

\* gpd.read_file and the ensure_* functions.  The inputs are planar Point
\* geometries, which ensure_projected and verificar_y_convertir_geometrias
\* return as they are.
Preparar ==
    /\ pc = "inicio"
    /\ puntos_gdf' = ensure_haz_num(ensure_fs_min(ensure_id_column(puntos_file)))
    /\ pc' = "validar"
    /\ UNCHANGED <<corredor, puntos_file, voronoi_gdf, raster, archivos, salida, campos>>
    /\ UNCHANGED <<varsClas, varsIdw, varsPanel, varsProy>>

\* main without its first validation (lines 594-597).
ValidarSinHazNum ==
    /\ pc = "validar"
    /\ IF "FS_min" \notin puntos_gdf.columnas
       THEN /\ pc' = "fin"
            /\ salida' = "error campo continuo"
            /\ campos' = puntos_gdf.columnas
       ELSE /\ pc' = "zonificar"
            /\ salida' = salida
            /\ campos' = campos
    /\ UNCHANGED <<corredor, puntos_file, puntos_gdf, voronoi_gdf, raster, archivos>>
    /\ UNCHANGED <<varsClas, varsIdw, varsPanel, varsProy>>

\* The two validations of the fields, each printing the message and the
\* columns of puntos_gdf, then calcular_estadisticas_puntos (which only
\* prints).
Validar ==
    /\ pc = "validar"
    /\ IF "haz_num" \notin puntos_gdf.columnas \/ TodoNaN(puntos_gdf, "haz_num")
       THEN /\ pc' = "fin"
            /\ salida' = "error haz_num"
            /\ campos' = puntos_gdf.columnas
       ELSE IF "FS_min" \notin puntos_gdf.columnas
       THEN /\ pc' = "fin"
            /\ salida' = "error campo continuo"
            /\ campos' = puntos_gdf.columnas
       ELSE /\ pc' = "zonificar"
            /\ salida' = salida
            /\ campos' = campos
    /\ UNCHANGED <<corredor, puntos_file, puntos_gdf, voronoi_gdf, raster, archivos>>
    /\ UNCHANGED <<varsClas, varsIdw, varsPanel, varsProy>>

\* crear_poligonos_voronoi and voronoi_gdf.to_file; an exception ends main
\* in its except clause.
Zonificar ==
    /\ pc = "zonificar"
    /\ LET r == crear_poligonos_voronoi(puntos_gdf, corredor)
       IN  IF r.error
           THEN /\ pc' = "fin"
                /\ salida' = "error inesperado"
                /\ UNCHANGED <<voronoi_gdf, archivos>>
           ELSE /\ voronoi_gdf' = r.polys
                /\ archivos' = archivos \cup {VORONOI_GPKG}
                /\ pc' = "raster"
                /\ salida' = salida
    /\ UNCHANGED <<corredor, puntos_file, puntos_gdf, raster, campos>>
    /\ UNCHANGED <<varsClas, varsIdw, varsPanel, varsProy>>

\* main without the test "raster_data is None" (lines 625-627).
GenerarRasterSinTest ==
    /\ pc = "raster"
    /\ LET r == generar_raster_amenaza(puntos_gdf, corredor)
       IN  IF r.estado = "excepcion"
           THEN /\ pc' = "fin"
                /\ salida' = "error inesperado"
                /\ raster' = raster
           ELSE /\ pc' = "exportar"
                /\ salida' = salida
                /\ raster' = r
    /\ UNCHANGED <<corredor, puntos_file, puntos_gdf, voronoi_gdf, archivos, campos>>
    /\ UNCHANGED <<varsClas, varsIdw, varsPanel, varsProy>>

\* generar_raster_amenaza and the test of its result.
GenerarRaster ==
    /\ pc = "raster"
    /\ LET r == generar_raster_amenaza(puntos_gdf, corredor)
       IN  CASE r.estado = "excepcion" ->
                  /\ pc' = "fin"
                  /\ salida' = "error inesperado"
                  /\ raster' = raster
             [] r.estado = "none" ->
                  /\ pc' = "fin"
                  /\ salida' = "error raster"
                  /\ raster' = r
             [] OTHER ->
                  /\ pc' = "exportar"
                  /\ salida' = salida
                  /\ raster' = r
    /\ UNCHANGED <<corredor, puntos_file, puntos_gdf, voronoi_gdf, archivos, campos>>
    /\ UNCHANGED <<varsClas, varsIdw, varsPanel, varsProy>>

\* exportar_raster, crear_mapa_amenaza and generar_informe_tecnico.
Exportar ==
    /\ pc = "exportar"
    /\ archivos' = archivos \cup {RASTER_TIF, MAPA_PNG, INFORME_TXT}
    /\ pc' = "fin"
    /\ salida' = "completado"
    /\ UNCHANGED <<corredor, puntos_file, puntos_gdf, voronoi_gdf, raster, campos>>
    /\ UNCHANGED <<varsClas, varsIdw, varsPanel, varsProy>>

(***************************************************************************)
(* Bounded inputs                                                          *)
(***************************************************************************)
MaxPuntos == 2        \* rows of the point table, main
MaxL == 2             \* corridor length, main
MaxRes == 2           \* resolution
BufferDist == 1       \* buffer distance

FSMuestras == {NaN, 0, 10, 16}
Etiquetas == {" baja ", "n/d"}
HazDados == {NaN, 2}

ColumnasEntrada ==
    (SUBSET {"FS_min", "CLASIFICACION", "haz_num"})
        \cup {{"FS_1"}, {"FS_1", "CLASIFICACION"}}

\* The rows a table with the given columns can hold; the points lie on the
\* corridor axis.
Filas(cols, xs) ==
    [x : xs, y : {0}, ID : {0 - 1},
     FS_1 : IF "FS_1" \in cols THEN FSMuestras ELSE {NaN},
     FS_min : IF "FS_min" \in cols THEN FSMuestras ELSE {NaN},
     CLASIFICACION : IF "CLASIFICACION" \in cols THEN Etiquetas ELSE {""},
     haz_num : IF "haz_num" \in cols THEN HazDados ELSE {NaN}]

ClasSinEjecutar ==
    /\ fs_array = <<>>
    /\ hecho = {}
    /\ res_escalar = <<>>
    /\ res_array = <<>>
    /\ res_raster = <<>>
    /\ res_load = [estado |-> "sin ejecutar"]
    /\ res_overlay = [estado |-> "sin ejecutar"]

MainSinEjecutar ==
    /\ pc = "sin ejecutar"
    /\ corredor = [L |-> 1, buffer_dist |-> BufferDist, resolution |-> 1]
    /\ puntos_file = [columnas |-> {}, filas |-> <<>>]
    /\ puntos_gdf = [columnas |-> {}, filas |-> <<>>]
    /\ voronoi_gdf = <<>>
    /\ raster = NoRaster
    /\ archivos = {}
    /\ salida = ""
    /\ campos = {}

IdwSinEjecutar ==
    /\ puntos_idw = <<>>
    /\ consulta = [x |-> Fr(0), y |-> Fr(0)]
    /\ res_idw = [estado |-> "sin calcular"]

TablaVacia == [columnas |-> {}, filas |-> <<>>]

SinCalcular == 0 - 1

PanelSinResultados ==
    /\ etapas = {}
    /\ puntos_mapa = TablaVacia
    /\ puntos_panel = [estado |-> "sin ejecutar", columnas |-> {}, filas |-> <<>>]
    /\ con_fs_min = TablaVacia
    /\ criticos = [mapa |-> SinCalcular, informe |-> SinCalcular,
                   pagina |-> SinCalcular]
    /\ nivel_predominante = SinCalcular
    /\ estilos = <<>>

PanelSinEjecutar ==
    /\ tabla = TablaVacia
    /\ PanelSinResultados

ProySinEjecutar ==
    /\ capas = [corredor |-> "", puntos |-> ""]
    /\ proyectadas = [estado |-> "sin ejecutar"]

Init ==
    /\ ClasSinEjecutar
    /\ pc = "inicio"
    /\ corredor \in [L : 1..MaxL, buffer_dist : {BufferDist},
                     resolution : 1..MaxRes]
    /\ \E cols \in ColumnasEntrada :
         \E k \in 0..MaxPuntos :
           \E fs \in [1..k -> Filas(cols, 0..corredor.L)] :
             /\ \A i, j \in 1..k : i < j => fs[i].x < fs[j].x
             /\ puntos_file = [columnas |-> cols, filas |-> fs]
    /\ puntos_gdf = [columnas |-> {}, filas |-> <<>>]
    /\ voronoi_gdf = <<>>
    /\ raster = NoRaster
    /\ archivos = {}
    /\ salida = ""
    /\ campos = {}
    /\ IdwSinEjecutar
    /\ PanelSinEjecutar
    /\ ProySinEjecutar

Next == Preparar \/ Validar \/ Zonificar \/ GenerarRaster \/ Exportar

Spec == Init /\ [][Next]_vars

(***************************************************************************)
(* Zonation alone: main at its Voronoi step, on prepared tables of up to   *)
(* MaxPuntosZ points along a corridor of length up to MaxLZ, one of which  *)
(* may lie on the axis Lejos past the corridor end, outside the buffer.    *)
(***************************************************************************)
MaxPuntosZ == 4
MaxLZ == 8
Lejos == 3            \* how far past the corridor end a point may lie

\* The FS_min and haz_num a prepared row holds.
Perfiles == {[FS_min |-> 9, haz_num |-> 5], [FS_min |-> 16, haz_num |-> 2],
             [FS_min |-> NaN, haz_num |-> NaN]}

FilasZ(xs) ==
    {[x |-> px, y |-> 0, ID |-> 0 - 1, FS_1 |-> NaN, FS_min |-> pf.FS_min,
      CLASIFICACION |-> "", haz_num |-> pf.haz_num] :
        px \in xs, pf \in Perfiles}

InitZonas ==
    /\ ClasSinEjecutar
    /\ pc = "zonificar"
    /\ corredor \in [L : 1..MaxLZ, buffer_dist : {BufferDist}, resolution : {1}]
    /\ \E k \in 1..MaxPuntosZ :
         \E fs \in [1..k -> FilasZ((0..corredor.L) \cup {corredor.L + Lejos})] :
           /\ \A i, j \in 1..k : i < j => fs[i].x < fs[j].x
           /\ puntos_file = [columnas |-> {"FS_min", "haz_num"}, filas |-> fs]
    /\ ~TodoNaN(puntos_file, "haz_num")
    /\ puntos_gdf = ensure_haz_num(ensure_fs_min(ensure_id_column(puntos_file)))
    /\ voronoi_gdf = <<>>
    /\ raster = NoRaster
    /\ archivos = {}
    /\ salida = ""
    /\ campos = {}
    /\ IdwSinEjecutar
    /\ PanelSinEjecutar
    /\ ProySinEjecutar

NextZonas == Zonificar

SpecZonas == InitZonas /\ [][NextZonas]_vars

(***************************************************************************)
(* The same step on up to MaxPuntosV points and corridors of length up to  *)
(* MaxLV.                                                                  *)
(***************************************************************************)
MaxPuntosV == 3
MaxLV == 6

InitVecinos ==
    /\ ClasSinEjecutar
    /\ IdwSinEjecutar
    /\ PanelSinEjecutar
    /\ ProySinEjecutar
    /\ pc = "zonificar"
    /\ corredor \in [L : 1..MaxLV, buffer_dist : {BufferDist}, resolution : {1}]
    /\ \E k \in 1..MaxPuntosV :
         \E fs \in [1..k -> FilasZ((0..corredor.L) \cup {corredor.L + Lejos})] :
           /\ \A i, j \in 1..k : i < j => fs[i].x < fs[j].x
           /\ puntos_file = [columnas |-> {"FS_min", "haz_num"}, filas |-> fs]
    /\ ~TodoNaN(puntos_file, "haz_num")
    /\ puntos_gdf = ensure_haz_num(ensure_fs_min(ensure_id_column(puntos_file)))
    /\ voronoi_gdf = <<>>
    /\ raster = NoRaster
    /\ archivos = {}
    /\ salida = ""
    /\ campos = {}

NextVecinos == Zonificar

SpecVecinos == InitVecinos /\ [][NextVecinos]_vars

(***************************************************************************)
(* Specification of the classification paths                               *)
(***************************************************************************)
MaxLen == 2

FSValores == {NaN, -5, 0, 5, 9, 10, 11, 12, 13, 15, 16, 20, 25, Inf}

ArraysFS == UNION {[1..n -> FSValores] : n \in 1..MaxLen}

InitClas ==
    /\ fs_array \in ArraysFS
    /\ hecho = {}
    /\ res_escalar = <<>>
    /\ res_array = <<>>
    /\ res_raster = <<>>
    /\ res_load = [estado |-> "sin ejecutar"]
    /\ res_overlay = [estado |-> "sin ejecutar"]
    /\ MainSinEjecutar
    /\ IdwSinEjecutar
    /\ PanelSinEjecutar
    /\ ProySinEjecutar

ClasificarEscalar ==
    /\ "escalar" \notin hecho
    /\ hecho' = hecho \cup {"escalar"}
    /\ res_escalar' = [i \in DOMAIN fs_array |-> clasificar_fs(fs_array[i])]
    /\ UNCHANGED <<fs_array, res_array, res_raster, res_load, res_overlay>>
    /\ UNCHANGED <<varsMain, varsIdw, varsPanel, varsProy>>

ClasificarArray ==
    /\ "array" \notin hecho
    /\ hecho' = hecho \cup {"array"}
    /\ res_array' = clasificar_fs_array(fs_array)
    /\ UNCHANGED <<fs_array, res_escalar, res_raster, res_load, res_overlay>>
    /\ UNCHANGED <<varsMain, varsIdw, varsPanel, varsProy>>

ReclasificarRaster ==
    /\ "raster" \notin hecho
    /\ hecho' = hecho \cup {"raster"}
    /\ res_raster' = reclasificar_fs_a_haz(
            [i \in DOMAIN fs_array |-> Fr(fs_array[i])], UMBRALES_FS)
    /\ UNCHANGED <<fs_array, res_escalar, res_array, res_load, res_overlay>>
    /\ UNCHANGED <<varsMain, varsIdw, varsPanel, varsProy>>

\* The dashboard loads a raster file whose band 1 holds fs_array.
CargarRaster ==
    /\ "load" \notin hecho
    /\ hecho' = hecho \cup {"load"}
    /\ res_load' = load_raster_with_validation(fs_array)
    /\ UNCHANGED <<fs_array, res_escalar, res_array, res_raster, res_overlay>>
    /\ UNCHANGED <<varsMain, varsIdw, varsPanel, varsProy>>

\* The dashboard draws the same file as a map overlay.
SuperponerRaster ==
    /\ "overlay" \notin hecho
    /\ hecho' = hecho \cup {"overlay"}
    /\ \E auto_detect \in BOOLEAN :
          res_overlay' = raster_to_folium_overlay(fs_array, auto_detect)
    /\ UNCHANGED <<fs_array, res_escalar, res_array, res_raster, res_load>>
    /\ UNCHANGED <<varsMain, varsIdw, varsPanel, varsProy>>

NextClas ==
    ClasificarEscalar \/ ClasificarArray \/ ReclasificarRaster
        \/ CargarRaster \/ SuperponerRaster

SpecClas == InitClas /\ [][NextClas]_vars

(***************************************************************************)
(* interpolar_idw alone: called on up to MaxMuestras samples, which may    *)
(* share a location, and one query location on a grid of half steps in x.  *)
(***************************************************************************)
MaxMuestras == 3
MaxCoord == 2

ValoresIdw == {0, 9, 16}

MuestrasIdw == [x : 0..MaxCoord, y : 0..1, v : ValoresIdw]

ConsultasIdw ==
    [x : {[n |-> a, d |-> 2] : a \in 0..(2 * MaxCoord)},
     y : {Fr(0), Fr(1)}]

\* The samples are listed by location, x first.
InitIdw ==
    /\ ClasSinEjecutar
    /\ MainSinEjecutar
    /\ PanelSinEjecutar
    /\ ProySinEjecutar
    /\ \E k \in 1..MaxMuestras :
         /\ puntos_idw \in [1..k -> MuestrasIdw]
         /\ \A i, j \in 1..k :
               i < j => \/ puntos_idw[i].x < puntos_idw[j].x
                        \/ /\ puntos_idw[i].x = puntos_idw[j].x
                           /\ puntos_idw[i].y <= puntos_idw[j].y
    /\ consulta \in ConsultasIdw
    /\ res_idw = [estado |-> "sin calcular"]

Interpolar ==
    /\ res_idw.estado = "sin calcular"
    /\ res_idw' = IF IdwFalla(puntos_idw)
                  THEN [estado |-> "excepcion"]
                  ELSE [estado |-> "ok",
                        valor |-> interpolar_idw(puntos_idw, consulta.x,
                                                 consulta.y)]
    /\ UNCHANGED <<puntos_idw, consulta>>
    /\ UNCHANGED <<varsClas, varsMain, varsPanel, varsProy>>

NextIdw == Interpolar

SpecIdw == InitIdw /\ [][NextIdw]_vars

(***************************************************************************)
(* Point preparation: one point table, as read from file, prepared by the  *)
(* pipeline (main, lines 586-589, then its statistics and report) and by   *)
(* the dashboard (prepare_puntos, then the Estadisticas page and the map   *)
(* markers), and ensure_fs_min called on it.                               *)
(***************************************************************************)
MaxFilas == 2

GeomTipos == {"Point", "Polygon"}

\* The sets of optional columns of the table.
ColumnasPanel ==
    {{}, {"ID"}, {"id"}, {"Sondeo", "SONDEO"}, {"FS_1"}, {"FS_1", "FS_2"},
     {"FS_1", "fs_3"}, {"FS_min", "FS_1"}, {"haz_num", "FS_1"}}

\* The cells a column can hold; a row has NaN where the table has no column.
ValoresDe(c) ==
    CASE c = "ID"      -> {11, 12}
      [] c = "id"      -> {21}
      [] c = "Sondeo"  -> {31}
      [] c = "SONDEO"  -> {41}
      [] c = "FS_min"  -> {NaN, 20}
      [] c = "FS_1"    -> {NaN, 9, 10}
      [] c = "FS_2"    -> {Texto, 5}
      [] c = "fs_3"    -> {Texto, 8}
      [] c = "haz_num" -> {NaN, 3}

CeldasDe(c, cols) == IF c \in cols THEN ValoresDe(c) ELSE {NaN}

FilasPanel(cols) ==
    [geom : GeomTipos,
     ID : CeldasDe("ID", cols), id : CeldasDe("id", cols),
     Sondeo : CeldasDe("Sondeo", cols), SONDEO : CeldasDe("SONDEO", cols),
     FS_min : CeldasDe("FS_min", cols), FS_1 : CeldasDe("FS_1", cols),
     FS_2 : CeldasDe("FS_2", cols), fs_3 : CeldasDe("fs_3", cols),
     CLASIFICACION : {""}, haz_num : CeldasDe("haz_num", cols)]

TablasPanel ==
    UNION {UNION {{[columnas |-> cols, filas |-> f] :
                      f \in [1..n -> FilasPanel(cols)]} : n \in 0..MaxFilas} :
           cols \in ColumnasPanel}

InitPanel ==
    /\ ClasSinEjecutar
    /\ MainSinEjecutar
    /\ IdwSinEjecutar
    /\ ProySinEjecutar
    /\ tabla \in TablasPanel
    /\ PanelSinResultados

\* ensure_fs_min(tabla): the function works on g = gdf.copy(), so the table
\* handed over is as it was.
AsegurarFSMin ==
    /\ "ensure_fs_min" \notin etapas
    /\ con_fs_min' = ensure_fs_min(tabla)
    /\ etapas' = etapas \cup {"ensure_fs_min"}
    /\ UNCHANGED <<tabla, puntos_mapa, puntos_panel, criticos,
                   nivel_predominante, estilos>>
    /\ UNCHANGED <<varsClas, varsMain, varsIdw, varsProy>>

\* main: the four preparation calls, calcular_estadisticas_puntos and
\* generar_informe_tecnico.
EjecutarMapa ==
    /\ "main" \notin etapas
    /\ puntos_mapa' = preparar_mapa(tabla)
    /\ criticos' = [criticos EXCEPT
                       !.mapa = calcular_estadisticas_puntos(preparar_mapa(tabla)),
                       !.informe = generar_informe_tecnico(preparar_mapa(tabla))]
    /\ etapas' = etapas \cup {"main"}
    /\ UNCHANGED <<tabla, puntos_panel, con_fs_min, nivel_predominante, estilos>>
    /\ UNCHANGED <<varsClas, varsMain, varsIdw, varsProy>>

\* The dashboard loads the table and calls prepare_puntos.
PrepararPanel ==
    /\ "prepare_puntos" \notin etapas
    /\ \E numeric_only \in BOOLEAN :
          puntos_panel' = prepare_puntos(tabla, numeric_only)
    /\ etapas' = etapas \cup {"prepare_puntos"}
    /\ UNCHANGED <<tabla, puntos_mapa, con_fs_min, criticos,
                   nivel_predominante, estilos>>
    /\ UNCHANGED <<varsClas, varsMain, varsIdw, varsProy>>

\* pages/1_Estadisticas.py: the metrics of the prepared points.
PaginaEstadisticas ==
    /\ puntos_panel.estado = "ok"
    /\ "pagina" \notin etapas
    /\ criticos' = [criticos EXCEPT !.pagina = criticos_pagina(puntos_panel)]
    /\ nivel_predominante' = nivel_predominante_pagina(puntos_panel)
    /\ etapas' = etapas \cup {"pagina"}
    /\ UNCHANGED <<tabla, puntos_mapa, puntos_panel, con_fs_min, estilos>>
    /\ UNCHANGED <<varsClas, varsMain, varsIdw, varsProy>>

\* The map markers: style_punto(row) for each prepared point.
Marcadores ==
    /\ puntos_panel.estado = "ok"
    /\ "marcadores" \notin etapas
    /\ estilos' = [i \in DOMAIN puntos_panel.filas |->
                      style_punto(puntos_panel.filas[i], puntos_panel.columnas)]
    /\ etapas' = etapas \cup {"marcadores"}
    /\ UNCHANGED <<tabla, puntos_mapa, puntos_panel, con_fs_min, criticos,
                   nivel_predominante>>
    /\ UNCHANGED <<varsClas, varsMain, varsIdw, varsProy>>

NextPanel ==
    AsegurarFSMin \/ EjecutarMapa \/ PrepararPanel \/ PaginaEstadisticas
        \/ Marcadores

SpecPanel == InitPanel /\ [][NextPanel]_vars

(***************************************************************************)
(* ensure_projected called on a corridor layer and a point layer.          *)
(***************************************************************************)
Longitudes == {0 - 180, 0 - 175, 0 - 75, 0, 5, 6, 174, 179, 180}

Latitudes == {0 - 90, 0 - 1, 0, 4, 90}

\* A layer of a projected CRS has its centroid in metres.
Metros == [lon |-> 500000, lat |-> 400000]

Capas ==
    {g \in [crs : {SinCRS, WGS84, MagnaBogota}, n : 0..1,
            lon : Longitudes \cup {Metros.lon},
            lat : Latitudes \cup {Metros.lat}] :
        /\ (g.n = 0) => (g.lon = 0 /\ g.lat = 0)
        /\ (g.n > 0 /\ g.crs = MagnaBogota)
              => (g.lon = Metros.lon /\ g.lat = Metros.lat)
        /\ (g.n > 0 /\ g.crs # MagnaBogota)
              => (g.lon \in Longitudes /\ g.lat \in Latitudes)}

InitProy ==
    /\ ClasSinEjecutar
    /\ MainSinEjecutar
    /\ IdwSinEjecutar
    /\ PanelSinEjecutar
    /\ capas \in [corredor : Capas, puntos : Capas]
    /\ proyectadas = [estado |-> "sin ejecutar"]

Proyectar ==
    /\ proyectadas.estado = "sin ejecutar"
    /\ proyectadas' = ensure_projected(capas.corredor, capas.puntos)
    /\ UNCHANGED capas
    /\ UNCHANGED <<varsClas, varsMain, varsIdw, varsPanel>>

NextProy == Proyectar

SpecProy == InitProy /\ [][NextProy]_vars

(***************************************************************************)
(* Claims on the classification paths (checked under SpecClas)             *)
(***************************************************************************)
finito(x) == ~isnan(x) /\ x # Inf

\* C1 (as stated): for every finite FS value x, 0 and negative values
\* included, clasificar_fs_array([x]) = [clasificar_fs(x)].
C1_EscalarIgualArray ==
    ({"escalar", "array"} \subseteq hecho /\ Len(fs_array) = 1
        /\ finito(fs_array[1]))
    => res_array = res_escalar

\* C1 (amended): for every finite FS value x other than 0, the nodata
\* marker of the array path, clasificar_fs_array([x]) = [clasificar_fs(x)].
C1_EscalarIgualArrayNoCero ==
    ({"escalar", "array"} \subseteq hecho /\ Len(fs_array) = 1
        /\ finito(fs_array[1]) /\ fs_array[1] # 0)
    => res_array = res_escalar

\* C1 witness: both classifiers have run on a one-element array holding a
\* negative FS, and the array path gave it class 5.
C1_Testigo ==
    /\ {"escalar", "array"} \subseteq hecho
    /\ Len(fs_array) = 1
    /\ fs_array[1] = -5
    /\ res_array = <<5>>

\* C2: reclasificar_fs_a_haz with UMBRALES_FS gives every (non-NaN) FS value
\* the class clasificar_fs gives it, the bin edges 1.0, 1.2, 1.5 and 2.0
\* included.
C2_RasterIgualEscalar ==
    ({"escalar", "raster"} \subseteq hecho)
    => \A i \in DOMAIN fs_array :
          ~isnan(fs_array[i]) => res_raster[i] = res_escalar[i]

\* C10: every finite FS value, 0 and negative values included, gets a class
\* in 1..5 on each of the three classification paths.
C10_TodaFSFinitaTieneClase ==
    (hecho = {"escalar", "array", "raster"})
    => \A i \in DOMAIN fs_array :
          finito(fs_array[i])
          => /\ res_escalar[i] \in 1..5
             /\ res_array[i] \in 1..5
             /\ res_raster[i] \in 1..5

\* C11: clasificar_fs is monotone non-increasing: for all non-NaN FS1 < FS2,
\* negatives and +inf included, clasificar_fs(FS1) >= clasificar_fs(FS2).
C11_ClaseNoCreceConFS ==
    ("escalar" \in hecho)
    => \A i, j \in DOMAIN fs_array :
          (~isnan(fs_array[i]) /\ ~isnan(fs_array[j])
              /\ fs_array[i] < fs_array[j])
          => res_escalar[i] >= res_escalar[j]

\* C11 witness: clasificar_fs has run on a negative FS and on +inf, giving
\* them classes 5 and 1.
C11_Testigo ==
    /\ "escalar" \in hecho
    /\ fs_array = <<0 - 5, Inf>>
    /\ res_escalar = <<5, 1>>

\* C12: clasificar_fs(NaN) is 0, and clasificar_fs_array returns an array of
\* the shape of its input holding 0 at every NaN cell, whatever the other
\* cells hold.
C12_NaNEsClaseCero ==
    /\ ("escalar" \in hecho)
        => \A i \in DOMAIN fs_array :
              isnan(fs_array[i]) => res_escalar[i] = 0
    /\ ("array" \in hecho)
        => /\ DOMAIN res_array = DOMAIN fs_array
           /\ \A i \in DOMAIN fs_array :
                 isnan(fs_array[i]) => res_array[i] = 0

\* C12 witness: both classifiers have run on an array holding NaN next to a
\* valid FS.
C12_Testigo ==
    /\ {"escalar", "array"} \subseteq hecho
    /\ fs_array = <<NaN, 16>>
    /\ res_array = <<0, 2>>
    /\ res_escalar = <<0, 2>>

\* Home.py: the table "Clasificacion INVIAS" shown on the Home page, as the
\* classes a row of the table gives an FS value: FS <= 1.0 MUY ALTA (5),
\* 1.0-1.2 ALTA (4), 1.2-1.5 MEDIA (3), 1.5-2.0 BAJA (2), FS > 2.0 MUY BAJA
\* (1).  The rows "a-b" hold their interior and may hold their ends, except
\* that 1.0 is in the first row only and 2.0 is not in the last.
TablaHome(fs) ==
    {c \in 1..5 :
        \/ c = 5 /\ fs <= 10
        \/ c = 4 /\ 10 < fs /\ fs <= 12
        \/ c = 3 /\ 12 <= fs /\ fs <= 15
        \/ c = 2 /\ 15 <= fs /\ fs <= 20
        \/ c = 1 /\ fs > 20}

\* C28: clasificar_fs follows the classification table of the Home page:
\* FS <= 1.0 is class 5 and only FS > 2.0 is class 1, so that FS = 1.0 is
\* class 5 and FS = 2.0 is class 2, with the ranges 1.0-1.2, 1.2-1.5 and
\* 1.5-2.0 mapped to classes 4, 3 and 2.
C28_ClasificadorSigueTablaHome ==
    ("escalar" \in hecho)
    => \A i \in DOMAIN fs_array :
          ~isnan(fs_array[i]) => res_escalar[i] \in TablaHome(fs_array[i])

(***************************************************************************)
(* Claims on the pipeline (checked under Spec)                             *)
(***************************************************************************)
FracIgual(a, b) == a.n * b.d = b.n * a.d

\* The class the shared table (bins 0, 1.0, 1.2, 1.5, 2.0, inf; classes 5,
\* 4, 3, 2, 1) gives an FS value, under either convention for the edges.
ClasesDeTabla(fs) ==
    {clasificar_fs(fs),
     reclasificar_fs_a_haz(<<Fr(fs)>>, UMBRALES_FS)[1]}

\* No haz_num column and no label of CLASIFICACION that the label table
\* maps: ensure_haz_num derives the classes from FS_min.
DerivaDeFS(t) ==
    /\ "haz_num" \notin t.columnas
    /\ ("CLASIFICACION" \in t.columnas
          => \A i \in DOMAIN t.filas :
                isnan(mapa(UpperStrip(t.filas[i].CLASIFICACION))))

\* C3: when ensure_haz_num derives the hazard class from FS_min, the class of
\* every point with a non-NaN FS_min is the one the shared threshold table
\* gives for that FS_min.
C3_ClaseDerivadaEsLaDeLaTabla ==
    (pc # "inicio" /\ DerivaDeFS(puntos_file)
        /\ "FS_min" \in puntos_gdf.columnas)
    => \A i \in DOMAIN puntos_gdf.filas :
          ~isnan(puntos_gdf.filas[i].FS_min)
          => puntos_gdf.filas[i].haz_num
                \in ClasesDeTabla(puntos_gdf.filas[i].FS_min)

\* C4: for every cell (i, j) of the returned grid, the location at which its
\* FS value was interpolated is the centre the returned geotransform gives
\* cell (i, j).
C4_ConsultaEnCentroDeCelda ==
    raster.estado = "ok"
    => \A cel \in Celdas(corredor) :
          /\ FracIgual(ConsultaX(corredor, cel[1], cel[2]),
                       CentroX(raster.transform, cel[1], cel[2]))
          /\ FracIgual(ConsultaY(corredor, cel[1], cel[2]),
                       CentroY(raster.transform, cel[1], cel[2]))

\* C5: in the returned grid a cell's class is non-zero if and only if its
\* interpolated FS value is valid and its centre lies inside the buffered
\* area, whatever the FS_min values of the samples.
C5_ClaseNoCeroSiiValidaYDentro ==
    raster.estado = "ok"
    => \A cel \in Celdas(corredor) :
          (raster.zi_clasificado[cel] # 0)
          <=> (/\ ~isnan(raster.zi_continuo[cel].n)
               /\ geometry_mask(corredor, raster.transform)[cel])

NMuestrasValidas(t) ==
    Cardinality({i \in DOMAIN t.filas : ~isnan(t.filas[i].FS_min)})

\* C6: with exactly one valid sample, interpolar_idw completes and
\* generar_raster_amenaza returns a classified grid.
C6_UnaMuestraDaRaster ==
    (pc = "fin" /\ VORONOI_GPKG \in archivos
        /\ "FS_min" \in puntos_gdf.columnas
        /\ NMuestrasValidas(puntos_gdf) = 1)
    => raster.estado = "ok"

\* C9: on points that all have FS_min = 1.6 and no haz_num or CLASIFICACION,
\* every Voronoi polygon has haz_num 2 and every cell of the classified
\* raster inside the buffered area is class 2.
C9_TodoClase2 ==
    (/\ puntos_file.columnas = {"FS_min"}
     /\ puntos_file.filas # <<>>
     /\ \A i \in DOMAIN puntos_file.filas : puntos_file.filas[i].FS_min = 16)
    => /\ VORONOI_GPKG \in archivos
          => \A k \in DOMAIN voronoi_gdf : voronoi_gdf[k].haz_num = 2
       /\ raster.estado = "ok"
          => \A cel \in Celdas(corredor) :
                geometry_mask(corredor, raster.transform)[cel]
                => raster.zi_clasificado[cel] = 2

\* No point of the prepared table has a hazard class.
SinClase(t) == "haz_num" \notin t.columnas \/ TodoNaN(t, "haz_num")

\* C13: if after ensure_fs_min and ensure_haz_num no point has a hazard
\* class (haz_num column absent, or undefined for every point), main reports
\* the haz_num error with the available field names and ends before any
\* artifact is produced.
C13_SinClaseTerminaSinArtefactos ==
    (pc \notin {"inicio", "validar"} /\ SinClase(puntos_gdf))
    => /\ pc = "fin"
       /\ salida = "error haz_num"
       /\ campos = puntos_gdf.columnas
       /\ archivos = {}
       /\ voronoi_gdf = <<>>
       /\ raster = NoRaster

\* C13 witness: main has ended on the haz_num error for two points whose
\* haz_num column, derived from unrecognized labels, is undefined throughout.
C13_Testigo ==
    /\ pc = "fin"
    /\ salida = "error haz_num"
    /\ Len(puntos_gdf.filas) = 2
    /\ "haz_num" \in puntos_gdf.columnas
    /\ "haz_num" \notin puntos_file.columnas
    /\ campos = puntos_gdf.columnas

\* Every point of the prepared table has a hazard class.
TodosConClase(t) ==
    /\ "haz_num" \in t.columnas
    /\ Len(t.filas) >= 1
    /\ \A i \in DOMAIN t.filas : ~isnan(t.filas[i].haz_num)

\* No point of the prepared table has a usable FS_min.
SinFSUtil(t) == "FS_min" \notin t.columnas \/ TodoNaN(t, "FS_min")

\* C14: when the points carry hazard classes but none has a usable FS_min
\* (FS_min column absent with no FS_* columns, or present with only NaN),
\* the run still builds and saves the Voronoi zonation and only the raster
\* step fails: the Voronoi file is the one artifact written.
C14_SinFSSoloFallaElRaster ==
    (pc = "fin" /\ TodosConClase(puntos_gdf) /\ SinFSUtil(puntos_gdf))
    => /\ salida = "error raster"
       /\ Len(voronoi_gdf) >= 1
       /\ archivos = {VORONOI_GPKG}

\* C15: if no point has a non-NaN FS_min, generar_raster_amenaza returns
\* None, None, None without raising, and main then writes no raster file,
\* map image or report.
C15_SinMuestrasNoHayRaster ==
    /\ (pc \in {"exportar", "fin"} /\ VORONOI_GPKG \in archivos
            /\ NMuestrasValidas(puntos_gdf) = 0)
       => /\ raster = [estado |-> "none"]
          /\ pc = "fin"
          /\ salida = "error raster"
    /\ (pc # "inicio" /\ NMuestrasValidas(puntos_gdf) = 0)
       => archivos \cap {RASTER_TIF, MAPA_PNG, INFORME_TXT} = {}

\* C15 witness: main has ended after generar_raster_amenaza returned None
\* for two classified points whose FS_min are both NaN; the Voronoi file is
\* the one artifact.
C15_Testigo ==
    /\ pc = "fin"
    /\ Len(puntos_gdf.filas) = 2
    /\ "FS_min" \in puntos_gdf.columnas
    /\ NMuestrasValidas(puntos_gdf) = 0
    /\ raster = [estado |-> "none"]
    /\ salida = "error raster"
    /\ archivos = {VORONOI_GPKG}

\* The rows of the prepared table that have a hazard class.
ConClase(t) == {i \in DOMAIN t.filas : ~isnan(t.filas[i].haz_num)}

\* C16: in crear_poligonos_voronoi a point whose haz_num is undefined while
\* other points have valid classes is dropped by itself: the polygons of
\* the other points are still returned and saved, and the run is not
\* aborted.
C16_PuntoSinClaseSeDescarta ==
    (/\ pc \in {"raster", "exportar", "fin"}
     /\ "FS_min" \in puntos_gdf.columnas
     /\ "haz_num" \in puntos_gdf.columnas
     /\ ConClase(puntos_gdf) # {}
     /\ ConClase(puntos_gdf) # DOMAIN puntos_gdf.filas)
    => /\ Len(voronoi_gdf) = Cardinality(ConClase(puntos_gdf))
       /\ \A k \in DOMAIN voronoi_gdf : ~isnan(voronoi_gdf[k].haz_num)
       /\ VORONOI_GPKG \in archivos

\* C17: ensure_haz_num resolves the class of each point on its own, by
\* priority haz_num, else the CLASIFICACION label, else FS_min: a point with
\* an unrecognized or missing label and a non-NaN FS_min ends with a class
\* in 1..5, whatever the other points hold.
C17_ClaseDeCadaPuntoDesdeFS ==
    (pc # "inicio" /\ "haz_num" \notin puntos_file.columnas)
    => \A i \in DOMAIN puntos_gdf.filas :
          (/\ "FS_min" \in puntos_gdf.columnas
           /\ ~isnan(puntos_gdf.filas[i].FS_min)
           /\ isnan(mapa(UpperStrip(puntos_file.filas[i].CLASIFICACION))))
          => puntos_gdf.filas[i].haz_num \in 1..5

(***************************************************************************)
(* Claims on the zonation (checked under SpecZonas)                        *)
(***************************************************************************)
Cubierto(polys) == UNION {polys[k].geometry : k \in DOMAIN polys}

PuntosUtiles(t, c) ==
    \A i \in DOMAIN t.filas :
        /\ ~isnan(t.filas[i].haz_num)
        /\ EstrictamenteEnArea(Coord(t.filas[i]), c)

\* C7: for N >= 4 distinct points strictly inside the (convex) buffered
\* area, each with a haz_num, crear_poligonos_voronoi returns N polygons
\* whose union is the buffered area.
C7_VoronoiCubreElArea ==
    (pc = "raster" /\ Len(puntos_gdf.filas) >= 4
        /\ PuntosUtiles(puntos_gdf, corredor))
    => /\ Len(voronoi_gdf) = Len(puntos_gdf.filas)
       /\ Cubierto(voronoi_gdf) = Lugares(corredor)

\* C8: for a single point with a haz_num inside the buffered area,
\* crear_poligonos_voronoi returns one polygon, and it covers the whole
\* buffered area, however long the corridor is.
C8_UnPuntoCubreElArea ==
    (pc = "raster" /\ Len(puntos_gdf.filas) = 1
        /\ PuntosUtiles(puntos_gdf, corredor))
    => /\ Len(voronoi_gdf) = 1
       /\ voronoi_gdf[1].geometry = Lugares(corredor)

(***************************************************************************)
(* Claims on the polygons (checked under SpecVecinos)                      *)
(***************************************************************************)
\* The rows of the prepared table whose ID is the punto_id of polygon k.
FilasDe(k) ==
    {i \in DOMAIN puntos_gdf.filas :
        puntos_gdf.filas[i].ID = voronoi_gdf[k].punto_id}

\* C18: for every location in a polygon returned for point P, P is at least
\* as near as every other real input point (a location on a boundary ties
\* with a neighbour; everywhere else P is the nearest): the phantom points
\* never give a real point territory that is closer to another real point.
C18_PoligonoEsTerritorioMasCercano ==
    (pc = "raster")
    => \A k \in DOMAIN voronoi_gdf :
         \A i \in FilasDe(k) :
           \A q \in voronoi_gdf[k].geometry :
             \A r \in DOMAIN puntos_gdf.filas :
                Dist2(q, Coord(puntos_gdf.filas[i]))
                    <= Dist2(q, Coord(puntos_gdf.filas[r]))

\* C18 witness: polygons were returned for three points on a corridor long
\* enough for the phantom points to take part of the buffered area.
C18_Testigo ==
    /\ pc = "raster"
    /\ Len(puntos_gdf.filas) = 3
    /\ Len(voronoi_gdf) >= 2
    /\ Cubierto(voronoi_gdf) # Lugares(corredor)
    /\ \A k \in DOMAIN voronoi_gdf : Cardinality(FilasDe(k)) = 1

\* C19: every returned polygon is generated by a real point, never by a
\* phantom point; there is at most one polygon per real point; its haz_num,
\* FS_min and punto_id are those of the row of its generating point; and a
\* cell that is empty after clipping is not emitted.
C19_PoligonoDeUnPuntoReal ==
    (pc = "raster")
    => /\ Len(voronoi_gdf) <= Len(puntos_gdf.filas)
       /\ \A k \in DOMAIN voronoi_gdf :
            /\ voronoi_gdf[k].geometry # {}
            /\ \E i \in DOMAIN puntos_gdf.filas :
                  /\ FilasDe(k) = {i}
                  /\ voronoi_gdf[k].haz_num = puntos_gdf.filas[i].haz_num
                  /\ voronoi_gdf[k].FS_min = puntos_gdf.filas[i].FS_min
                  /\ \A q \in voronoi_gdf[k].geometry :
                       \A f \in bbox_pts(corredor) :
                          Dist2(q, Coord(puntos_gdf.filas[i])) <= Dist2(q, f)
       /\ \A k, m \in DOMAIN voronoi_gdf :
            k # m => voronoi_gdf[k].punto_id # voronoi_gdf[m].punto_id

\* C19 witness: of three points with different attributes, the one lying
\* outside the buffer has a cell that is empty after clipping; two polygons
\* were returned, for the other two.
C19_Testigo ==
    /\ pc = "raster"
    /\ Len(puntos_gdf.filas) = 3
    /\ Len(voronoi_gdf) = 2
    /\ CeldaRecortada(puntos_gdf.filas, 3, corredor) = {}
    /\ voronoi_gdf[1].haz_num # voronoi_gdf[2].haz_num

(***************************************************************************)
(* Claims on interpolar_idw (checked under SpecIdw)                        *)
(***************************************************************************)
\* The samples lying exactly at the query location.
EnConsulta ==
    {i \in DOMAIN puntos_idw :
        /\ FracIgual(consulta.x, Fr(puntos_idw[i].x))
        /\ FracIgual(consulta.y, Fr(puntos_idw[i].y))}

\* The fraction r is the integer v, up to the size of what the distance
\* floor leaves of the other samples.
CasiIgual(r, v) ==
    /\ ~isnan(r.n)
    /\ LET dif == r.n - v * r.d
       IN  (IF dif < 0 THEN 0 - dif ELSE dif) * Diminuto <= r.d

MinValor(ms) == CHOOSE a \in {ms[i].v : i \in DOMAIN ms} :
                    \A i \in DOMAIN ms : a <= ms[i].v
MaxValor(ms) == CHOOSE a \in {ms[i].v : i \in DOMAIN ms} :
                    \A i \in DOMAIN ms : a >= ms[i].v

\* C23: in interpolar_idw the weights of the k = min(10, number of samples)
\* neighbours of the query location are non-negative and sum to 1, so that
\* a value is returned and lies between the minimum and the maximum of the
\* neighbours' values.
C23_ValorEntreMinimoYMaximo ==
    (res_idw.estado # "sin calcular")
    => /\ res_idw.estado = "ok"
       /\ ~isnan(res_idw.valor.n)
       /\ res_idw.valor.d > 0
       /\ MinValor(puntos_idw) * res_idw.valor.d <= res_idw.valor.n
       /\ res_idw.valor.n <= MaxValor(puntos_idw) * res_idw.valor.d

(***************************************************************************)
(* Claim about raster validation, checked under SpecClas.                  *)
(***************************************************************************)
\* Every valid (non-zero, non-NaN) cell of the raster holds a class 1..5.
ValidasEnClases ==
    \A i \in DOMAIN fs_array :
        (fs_array[i] # 0 /\ ~isnan(fs_array[i]))
            => fs_array[i] \in {ComoCelda(c) : c \in 1..5}

\* C30: load_raster_with_validation returns the raster unchanged with
\* reclassified = False if every valid cell holds a class 1..5, and
\* otherwise returns clasificar_fs_array of it with reclassified = True;
\* every non-NaN cell returned holds one of 0..5; raster_to_folium_overlay
\* with auto_detect reclassifies in the same cases.
C30_RasterValidadoOReclasificado ==
    /\ ("load" \in hecho)
       => /\ res_load.estado = "ok"
          /\ res_load.reclassified = ~ValidasEnClases
          /\ res_load.data = IF ValidasEnClases THEN fs_array
                             ELSE Reclasificado(fs_array)
          /\ \A i \in DOMAIN res_load.data :
                ~isnan(res_load.data[i])
                    => res_load.data[i] \in {ComoCelda(c) : c \in 0..5}
    /\ ("overlay" \in hecho /\ res_overlay.auto_detect)
       => res_overlay.reclassified = ~ValidasEnClases

(***************************************************************************)
(* Claims about point preparation, checked under SpecPanel.                *)
(***************************************************************************)
\* FS_min of row i of a table: undefined where the table has no FS_min.
FSMinDe(t, i) == IF "FS_min" \in t.columnas THEN t.filas[i].FS_min ELSE NaN

\* The number of rows of a table whose FS_min is a number below 1.0.
MenoresQueUno(t) ==
    Cardinality({i \in DOMAIN t.filas :
                    FSMinDe(t, i) # NaN /\ FSMinDe(t, i) \in 0..9})

\* C21: the critical-point count of calcular_estadisticas_puntos, of
\* generar_informe_tecnico and of the Estadisticas page is the number of
\* prepared points whose FS_min is strictly below 1.0; a point with FS_min
\* 1.0 or NaN is not counted.
C21_CriticosSonLosDeFSBajoUno ==
    /\ ("main" \in etapas)
       => /\ criticos.mapa = MenoresQueUno(puntos_mapa)
          /\ criticos.informe = MenoresQueUno(puntos_mapa)
    /\ ("pagina" \in etapas)
       => criticos.pagina = MenoresQueUno(puntos_panel)

\* All three reports ran on two points, one with FS_min 0.9 and one with
\* FS_min 1.0, and each counted one.
C21_Testigo ==
    /\ {"main", "pagina"} \subseteq etapas
    /\ Len(puntos_mapa.filas) = 2
    /\ {FSMinDe(puntos_mapa, i) : i \in DOMAIN puntos_mapa.filas} = {9, 10}
    /\ {FSMinDe(puntos_panel, i) : i \in DOMAIN puntos_panel.filas} = {9, 10}
    /\ criticos = [mapa |-> 1, informe |-> 1, pagina |-> 1]

\* A class that is no class: NaN or the nodata class 0.
SinClasePanel(h) == isnan(h) \/ h = 0

\* C24: a point whose hazard class is undefined is not treated as one of
\* the classes 1..5: prepare_puntos gives a point without FS_min the class
\* 0 or NaN, style_punto does not give such a point the colour of a class,
\* and the predominant level of points that all lack a class is no class.
C24_SinClaseNuncaEsClase1a5 ==
    /\ (puntos_panel.estado = "ok" /\ "haz_num" \notin tabla.columnas)
       => \A i \in DOMAIN puntos_panel.filas :
             isnan(puntos_panel.filas[i].FS_min)
                => SinClasePanel(puntos_panel.filas[i].haz_num)
    /\ ("marcadores" \in etapas)
       => \A i \in DOMAIN puntos_panel.filas :
             SinClasePanel(puntos_panel.filas[i].haz_num) => estilos[i] \notin 1..5
    /\ ("pagina" \in etapas
          /\ \A i \in DOMAIN puntos_panel.filas :
                SinClasePanel(puntos_panel.filas[i].haz_num))
       => nivel_predominante \notin 1..5

\* C25: after point preparation every geometry is a Point, in main's
\* table (verificar_y_convertir_geometrias) and in prepare_puntos's.
C25_TodasLasGeometriasSonPuntos ==
    /\ ("main" \in etapas)
       => \A i \in DOMAIN puntos_mapa.filas : puntos_mapa.filas[i].geom = "Point"
    /\ (puntos_panel.estado = "ok")
       => \A i \in DOMAIN puntos_panel.filas : puntos_panel.filas[i].geom = "Point"

\* C26: ensure_id_column (in main) and prepare_puntos give every point of
\* the same table the same ID.
C26_MismoIDEnLasDosPreparaciones ==
    ("main" \in etapas /\ puntos_panel.estado = "ok")
    => \A i \in DOMAIN tabla.filas :
          puntos_mapa.filas[i].ID = puntos_panel.filas[i].ID

\* The per-scenario FS columns of a table: those named FS_ or fs_ and
\* something, FS_min apart.
PorEscenario(t) == t.columnas \cap {"FS_1", "FS_2", "fs_3"}

\* The least of the numbers among the per-scenario FS cells of row i, NaN
\* when none is a number.
MinimoNumerico(t, i) ==
    LET nums == {t.filas[i][c] : c \in PorEscenario(t)} \ {NaN, Texto}
    IN  IF nums = {} THEN NaN
        ELSE CHOOSE a \in nums : \A b \in nums : a <= b

\* C27: ensure_fs_min returns the points of the table, each with FS_min the
\* least of its numeric per-scenario FS values (NaN when none is numeric)
\* if the table has no FS_min, and with the FS_min of the table if it has.
C27_FSMinEsElMinimoNumerico ==
    ("ensure_fs_min" \in etapas)
    => /\ Len(con_fs_min.filas) = Len(tabla.filas)
       /\ ("FS_min" \in tabla.columnas) => con_fs_min = tabla
       /\ \A i \in DOMAIN tabla.filas :
             FSMinDe(con_fs_min, i) =
                IF "FS_min" \in tabla.columnas THEN tabla.filas[i].FS_min
                ELSE MinimoNumerico(tabla, i)

\* ensure_fs_min ran on a table without FS_min, where a point has one
\* missing and one numeric per-scenario value, and another has a text and
\* a numeric one.
C27_Testigo ==
    /\ "ensure_fs_min" \in etapas
    /\ tabla.columnas = {"FS_1", "FS_2"}
    /\ Len(tabla.filas) = 2
    /\ tabla.filas[1].FS_1 = NaN /\ tabla.filas[1].FS_2 = 5
    /\ tabla.filas[2].FS_1 = 9 /\ tabla.filas[2].FS_2 = Texto
    /\ con_fs_min.filas[1].FS_min = 5
    /\ con_fs_min.filas[2].FS_min = 9

(***************************************************************************)
(* Claims about ensure_projected, checked under SpecProy.                  *)
(***************************************************************************)
\* C22: for a corridor whose CRS is geographic or undefined
\* ensure_projected returns, with the corridor and the points in one and
\* the same UTM CRS; for an empty corridor that CRS is the one selected
\* from the points.
C22_CorredorYPuntosEnUnMismoUTM ==
    (/\ proyectadas.estado # "sin ejecutar"
     /\ capas.corredor.crs \in {SinCRS, WGS84})
    => /\ proyectadas.estado = "ok"
       /\ proyectadas.corredor_crs = proyectadas.puntos_crs
       /\ EsUTM(proyectadas.corredor_crs)
       /\ (capas.corredor.n = 0)
             => proyectadas.corredor_crs = utm_epsg(capas.puntos)

\* The centroid the zone is selected from.
Centroide == IF capas.corredor.n > 0 THEN capas.corredor ELSE capas.puntos

\* C29: for a centroid of longitude in [-180, 180] and latitude in
\* [-90, 90] the code selected is 32600 + zone for latitude >= 0 and
\* 32700 + zone for latitude < 0, zone being in 1..60 and the 6-degree
\* band of the longitude.
C29_ZonaUTMDeLaBanda ==
    (/\ proyectadas.estado # "sin ejecutar"
     /\ proyectadas.epsg # 0
     /\ Centroide.lon \in (0 - 180)..180
     /\ Centroide.lat \in (0 - 90)..90)
    => \E zone \in 1..60 :
          /\ 6 * (zone - 1) - 180 <= Centroide.lon
          /\ Centroide.lon <= 6 * zone - 180
          /\ proyectadas.epsg = IF Centroide.lat >= 0 THEN 32600 + zone
                                 ELSE 32700 + zone

====
